---- MODULE Spec2Model ----
(***************************************************************************)
(* monorail-scraper: the OSS-Fuzz bug report parser                        *)
(* (monorail_scraper/oss_fuzz/oss_fuzz_bug_report_parser.py) and the       *)
(* string utilities it rests on (monorail_scraper/utils/string_util.py).   *)
(*                                                                         *)
(* A Python str is a sequence of one-character strings; None is a value    *)
(* that is no such sequence (and, where a report can stand, a record that  *)
(* is no report).  A call's outcome is Returned(v) or Raised(exception     *)
(* class).                                                                 *)
(***************************************************************************)
EXTENDS Integers, Sequences, FiniteSets, TLC

None == <<"None">>

\* None where an OSSFuzzBugReport can stand: Issue.oss_fuzz_bug_report before
\* a report is attached
NoReport == [none |-> TRUE]

Returned(v) == [kind |-> "return", value |-> v]

Raised(e) == [kind |-> "raise", exc |-> e]

Range(s) == {s[i] : i \in 1..Len(s)}

(***************************************************************************)
(* Character classes of Python's str and re, on the characters used here.  *)
(***************************************************************************)
UpperCase == <<"A", "B", "C", "D", "E", "F", "G", "H", "I", "J", "K", "L", "M",
               "N", "O", "P", "Q", "R", "S", "T", "U", "V", "W", "X", "Y", "Z">>

LowerCase == <<"a", "b", "c", "d", "e", "f", "g", "h", "i", "j", "k", "l", "m",
               "n", "o", "p", "q", "r", "s", "t", "u", "v", "w", "x", "y", "z">>

Digits == {"0", "1", "2", "3", "4", "5", "6", "7", "8", "9"}

\* str.isspace / re's \s
Whitespace == {" ", "\t", "\n", "\r", "\f"}

\* re's \w: letters, digits and the underscore
WordChars == Range(UpperCase) \cup Range(LowerCase) \cup Digits \cup {"_"}

\* str.casefold on one character: the lower-case letter of an upper-case one
FoldMap ==
    [c \in Range(UpperCase) |->
        LowerCase[CHOOSE i \in 1..Len(UpperCase) : UpperCase[i] = c]]

IsSpace(c) == c \in Whitespace

IsWord(c) == c \in WordChars

FoldChar(c) == IF c \in DOMAIN FoldMap THEN FoldMap[c] ELSE c

(***************************************************************************)
(* Python str methods.                                                     *)
(***************************************************************************)
RECURSIVE lstrip(_)
lstrip(s) == IF s # <<>> /\ IsSpace(Head(s)) THEN lstrip(Tail(s)) ELSE s

RECURSIVE rstrip(_)
rstrip(s) ==
    IF s # <<>> /\ IsSpace(s[Len(s)]) THEN rstrip(SubSeq(s, 1, Len(s) - 1)) ELSE s

strip(s) == rstrip(lstrip(s))

casefold(s) == [i \in 1..Len(s) |-> FoldChar(s[i])]

\* the index of the first sep in s, 0 when there is none
find(s, sep) ==
    IF \E i \in 1..Len(s) : s[i] = sep
    THEN CHOOSE i \in 1..Len(s) : s[i] = sep /\ \A j \in 1..(i - 1) : s[j] # sep
    ELSE 0

\* s.split(sep): every piece between separators, empty pieces kept
RECURSIVE split(_, _)
split(s, sep) ==
    LET i == find(s, sep)
    IN  IF i = 0 THEN <<s>>
        ELSE <<SubSeq(s, 1, i - 1)>> \o split(SubSeq(s, i + 1, Len(s)), sep)

\* s.split(sep, maxsplit=1)
split_maxsplit1(s, sep) ==
    LET i == find(s, sep)
    IN  IF i = 0 THEN <<s>>
        ELSE <<SubSeq(s, 1, i - 1), SubSeq(s, i + 1, Len(s))>>

LitAt(text, lit, pos) ==
    /\ pos + Len(lit) - 1 <= Len(text)
    /\ \A k \in 1..Len(lit) : text[pos + k - 1] = lit[k]

\* the positions of text at which the first character of lit stands (every
\* position when lit is empty)
Candidates(text, lit) ==
    IF lit = <<>> THEN 1..(Len(text) + 1)
    ELSE {pos \in 1..Len(text) : text[pos] = lit[1]}

startswith(s, prefix) == LitAt(s, prefix, 1)

\* prefix in s
contains(s, sub) == \E i \in Candidates(s, sub) : LitAt(s, sub, i)

(***************************************************************************)
(* Python's re on the constructs the patterns of the parser use.  A        *)
(* pattern is a sequence of elements:                                      *)
(*   lit     a literal text                                                *)
(*   set     one character of a class: [Tt], [\n$]                         *)
(*   lazy    .+? or .*? (min 1 or 0), a capturing group or not; the dot    *)
(*           matches every character but the line break, and every         *)
(*           character under re.DOTALL                                     *)
(*   greedy  a class repeated greedily: [0-9]+, \s*                        *)
(*   alt     (?:left|right)                                                *)
(* Match is the backtracking matcher: alternatives in the order re tries   *)
(* them, the first success wins.                                           *)
(***************************************************************************)
Lit(s) == [t |-> "lit", s |-> s]

OneOf(chars) == [t |-> "set", chars |-> chars]

Lazy(min, group) == [t |-> "lazy", min |-> min, group |-> group]

Greedy(chars, min) == [t |-> "greedy", chars |-> chars, min |-> min]

Alt(left, right) == [t |-> "alt", left |-> left, right |-> right]

Failed == [matched |-> FALSE]

RECURSIVE RunLen(_, _, _)
RunLen(text, chars, pos) ==
    IF pos <= Len(text) /\ text[pos] \in chars
    THEN 1 + RunLen(text, chars, pos + 1)
    ELSE 0

RECURSIVE Match(_, _, _, _, _)
RECURSIVE MatchLazy(_, _, _, _, _, _, _)
RECURSIVE MatchGreedy(_, _, _, _, _, _, _)

Match(text, p, pos, group1, dotall) ==
    IF p = <<>> THEN [matched |-> TRUE, group1 |-> group1]
    ELSE LET e == Head(p)
             rest == Tail(p)
         IN  CASE e.t = "lit" ->
                    IF LitAt(text, e.s, pos)
                    THEN Match(text, rest, pos + Len(e.s), group1, dotall)
                    ELSE Failed
               [] e.t = "set" ->
                    IF pos <= Len(text) /\ text[pos] \in e.chars
                    THEN Match(text, rest, pos + 1, group1, dotall)
                    ELSE Failed
               [] e.t = "lazy" ->
                    MatchLazy(text, e, rest, pos, e.min, group1, dotall)
               [] e.t = "greedy" ->
                    MatchGreedy(text, e, rest, pos,
                                RunLen(text, e.chars, pos), group1, dotall)
               [] e.t = "alt" ->
                    LET l == Match(text, e.left \o rest, pos, group1, dotall)
                    IN  IF l.matched THEN l
                        ELSE Match(text, e.right \o rest, pos, group1, dotall)

\* the dot has taken len - 1 characters from pos: take the len-th, shortest first
MatchLazy(text, e, rest, pos, len, group1, dotall) ==
    IF len > 0 /\ ~(/\ pos + len - 1 <= Len(text)
                    /\ (dotall \/ text[pos + len - 1] # "\n"))
    THEN Failed
    ELSE LET r == Match(text, rest, pos + len,
                        IF e.group THEN SubSeq(text, pos, pos + len - 1)
                        ELSE group1,
                        dotall)
         IN  IF r.matched THEN r
             ELSE IF pos + len > Len(text) THEN Failed
             ELSE MatchLazy(text, e, rest, pos, len + 1, group1, dotall)

\* the class repeated len times from pos, longest first
MatchGreedy(text, e, rest, pos, len, group1, dotall) ==
    IF len < e.min THEN Failed
    ELSE LET r == Match(text, rest, pos + len, group1, dotall)
         IN  IF r.matched THEN r
             ELSE MatchGreedy(text, e, rest, pos, len - 1, group1, dotall)

\* pattern.search(text): the match at the leftmost position at which the
\* pattern matches; a pattern that begins with a literal can only match where
\* the literal starts
search(p, text, dotall) ==
    LET starts == IF p # <<>> /\ Head(p).t = "lit"
                  THEN Candidates(text, Head(p).s)
                  ELSE 1..(Len(text) + 1)
        at == {pos \in starts : Match(text, p, pos, None, dotall).matched}
    IN  IF at = {} THEN Failed
        ELSE Match(text, p, CHOOSE pos \in at : \A q \in at : pos <= q,
                   None, dotall)

\* re.sub(r'\W+', '', s): every run of non-word characters removed
RECURSIVE re_sub_nonword(_)
re_sub_nonword(s) ==
    IF s = <<>> THEN <<>>
    ELSE IF IsWord(Head(s)) THEN <<Head(s)>> \o re_sub_nonword(Tail(s))
    ELSE LET run == RunLen(s, Range(s) \ WordChars, 1)
         IN  re_sub_nonword(SubSeq(s, run + 1, Len(s)))

(***************************************************************************)
(* monorail_scraper/utils/string_util.py                                   *)
(***************************************************************************)
capture(input, regex, dotall, fail_gently) ==
    LET match == search(regex, input, dotall)
    IN  IF ~match.matched
        THEN IF ~fail_gently THEN Raised("Warning") ELSE Returned(None)
        ELSE Returned(match.group1)

\* almost_equal without the case folding
almost_equal_no_casefold(str1, str2) ==
    IF str1 = None \/ str2 = None
    THEN str1 = None /\ str2 = None
    ELSE re_sub_nonword(strip(str1)) = re_sub_nonword(strip(str2))

almost_equal(str1, str2) ==
    IF str1 = None \/ str2 = None
    THEN str1 = None /\ str2 = None
    ELSE LET str1_processed == re_sub_nonword(casefold(strip(str1)))
             str2_processed == re_sub_nonword(casefold(strip(str2)))
         IN  str1_processed = str2_processed

(***************************************************************************)
(* monorail_scraper/oss_fuzz/oss_fuzz_bug_report_parser.py: the patterns   *)
(* and the string constants of the parser.                                 *)
(***************************************************************************)
\* r'Job Type: (.+?)[\n$]'
re_job_type ==
    <<Lit(<<"J", "o", "b", " ", "T", "y", "p", "e", ":", " ">>),
      Lazy(1, TRUE), OneOf({"\n", "$"})>>

\* r'Target: (.+?)[\n$]'
re_target ==
    <<Lit(<<"T", "a", "r", "g", "e", "t", ":", " ">>),
      Lazy(1, TRUE), OneOf({"\n", "$"})>>

\* r'Project: (.+?)[\n$]'
re_project ==
    <<Lit(<<"P", "r", "o", "j", "e", "c", "t", ":", " ">>),
      Lazy(1, TRUE), OneOf({"\n", "$"})>>

\* r'Fuzzing [Ee]ngine: (.+?)[\n$]'
re_fuzzing_engine ==
    <<Lit(<<"F", "u", "z", "z", "i", "n", "g", " ">>), OneOf({"E", "e"}),
      Lit(<<"n", "g", "i", "n", "e", ":", " ">>),
      Lazy(1, TRUE), OneOf({"\n", "$"})>>

\* r'Fuzz [Tt]arget: (.+?)[\n$]'
re_fuzz_target ==
    <<Lit(<<"F", "u", "z", "z", " ">>), OneOf({"T", "t"}),
      Lit(<<"a", "r", "g", "e", "t", ":", " ">>),
      Lazy(1, TRUE), OneOf({"\n", "$"})>>

\* r'Fuzz target binary: (.+?)[\n$]'
re_fuzz_target_binary ==
    <<Lit(<<"F", "u", "z", "z", " ", "t", "a", "r", "g", "e", "t", " ", "b", "i", "n", "a", "r", "y", ":", " ">>),
      Lazy(1, TRUE), OneOf({"\n", "$"})>>

\* r'Fuzzer binary: (.+?)[\n$]'
re_fuzzer_binary ==
    <<Lit(<<"F", "u", "z", "z", "e", "r", " ", "b", "i", "n", "a", "r", "y", ":", " ">>),
      Lazy(1, TRUE), OneOf({"\n", "$"})>>

\* r'Fuzzer: (.+?)[\n$]'
re_fuzzer ==
    <<Lit(<<"F", "u", "z", "z", "e", "r", ":", " ">>),
      Lazy(1, TRUE), OneOf({"\n", "$"})>>

\* r'Platform Id: (.+?)[\n$]'
re_platform_id ==
    <<Lit(<<"P", "l", "a", "t", "f", "o", "r", "m", " ", "I", "d", ":", " ">>),
      Lazy(1, TRUE), OneOf({"\n", "$"})>>

\* r'Crash Type: (.*?)[\n$]'
re_crash_type ==
    <<Lit(<<"C", "r", "a", "s", "h", " ", "T", "y", "p", "e", ":", " ">>),
      Lazy(0, TRUE), OneOf({"\n", "$"})>>

\* r'Crash Address: (.*?)[\n$]'
re_crash_address ==
    <<Lit(<<"C", "r", "a", "s", "h", " ", "A", "d", "d", "r", "e", "s", "s", ":", " ">>),
      Lazy(0, TRUE), OneOf({"\n", "$"})>>

\* r'Crash State:\n(.*?)\n(?:Sanitizer|\s*\n)', compiled with re.DOTALL
re_crash_state ==
    <<Lit(<<"C", "r", "a", "s", "h", " ", "S", "t", "a", "t", "e", ":", "\n">>),
      Lazy(0, TRUE), Lit(<<"\n">>),
      Alt(<<Lit(<<"S", "a", "n", "i", "t", "i", "z", "e", "r">>)>>,
          <<Greedy(Whitespace, 0), Lit(<<"\n">>)>>)>>

\* r'Sanitizer: (.+?)[\n$]'
re_sanitizer ==
    <<Lit(<<"S", "a", "n", "i", "t", "i", "z", "e", "r", ":", " ">>),
      Lazy(1, TRUE), OneOf({"\n", "$"})>>

\* r'Regressed: (.+?)[\n$]'
re_regressed ==
    <<Lit(<<"R", "e", "g", "r", "e", "s", "s", "e", "d", ":", " ">>),
      Lazy(1, TRUE), OneOf({"\n", "$"})>>

\* r'Crash Revision: (.+?)[\n$]'
re_crash_revision ==
    <<Lit(<<"C", "r", "a", "s", "h", " ", "R", "e", "v", "i", "s", "i", "o", "n", ":", " ">>),
      Lazy(1, TRUE), OneOf({"\n", "$"})>>

\* r'Fixed: (.+?)[\n$]'
re_fixed ==
    <<Lit(<<"F", "i", "x", "e", "d", ":", " ">>),
      Lazy(1, TRUE), OneOf({"\n", "$"})>>

\* r'ClusterFuzz testcase [0-9]+ is verified as fixed in (.+?)[\n$]'
re_verified_as_fixed ==
    <<Lit(<<"C", "l", "u", "s", "t", "e", "r", "F", "u", "z", "z", " ", "t", "e", "s", "t", "c", "a", "s", "e", " ">>),
      Greedy(Digits, 1),
      Lit(<<" ", "i", "s", " ", "v", "e", "r", "i", "f", "i", "e", "d", " ", "a", "s", " ", "f", "i", "x", "e", "d", " ", "i", "n", " ">>),
      Lazy(1, TRUE), OneOf({"\n", "$"})>>

\* r'Reproducer Testcase: (.+?)[\n$]'
re_reproducer_testcase ==
    <<Lit(<<"R", "e", "p", "r", "o", "d", "u", "c", "e", "r", " ", "T", "e", "s", "t", "c", "a", "s", "e", ":", " ">>),
      Lazy(1, TRUE), OneOf({"\n", "$"})>>

\* r'Minimized Testcase \(.+?\): (.+?)[\n$]'
re_minimized_testcase ==
    <<Lit(<<"M", "i", "n", "i", "m", "i", "z", "e", "d", " ", "T", "e", "s", "t", "c", "a", "s", "e", " ", "(">>),
      Lazy(1, FALSE), Lit(<<")", ":", " ">>),
      Lazy(1, TRUE), OneOf({"\n", "$"})>>

\* r'Unminimized Testcase: (.+?)[\n$]'
re_unminimized_testcase ==
    <<Lit(<<"U", "n", "m", "i", "n", "i", "m", "i", "z", "e", "d", " ", "T", "e", "s", "t", "c", "a", "s", "e", ":", " ">>),
      Lazy(1, TRUE), OneOf({"\n", "$"})>>

\* r'Download: (.+?)[\n$]'
re_download ==
    <<Lit(<<"D", "o", "w", "n", "l", "o", "a", "d", ":", " ">>),
      Lazy(1, TRUE), OneOf({"\n", "$"})>>

str_oss_fuzz == <<"o", "s", "s", "-", "f", "u", "z", "z">>

str_ClusterFuzz_External == <<"C", "l", "u", "s", "t", "e", "r", "F", "u", "z", "z", "-", "E", "x", "t", "e", "r", "n", "a", "l">>

str_Bug == <<"B", "u", "g">>

str_Bug_Security == <<"B", "u", "g", "-", "S", "e", "c", "u", "r", "i", "t", "y">>

str_Fuzzer_js_fuzzer == <<"F", "u", "z", "z", "e", "r", ":", " ", "j", "s", "_", "f", "u", "z", "z", "e", "r">>

str_js_fuzzer == <<"j", "s", "_", "f", "u", "z", "z", "e", "r">>

str_afl == <<"a", "f", "l">>

str_libfuzzer == <<"l", "i", "b", "f", "u", "z", "z", "e", "r">>

str_libFuzzer == <<"l", "i", "b", "F", "u", "z", "z", "e", "r">>

str_honggfuzz == <<"h", "o", "n", "g", "g", "f", "u", "z", "z">>

str_asan == <<"a", "s", "a", "n">>

str_ubsan == <<"u", "b", "s", "a", "n">>

str_msan == <<"m", "s", "a", "n">>

str_tsan == <<"t", "s", "a", "n">>

str_lsan == <<"l", "s", "a", "n">>

str_address_ASAN == <<"a", "d", "d", "r", "e", "s", "s", " ", "(", "A", "S", "A", "N", ")">>

str_undefined_UBSAN == <<"u", "n", "d", "e", "f", "i", "n", "e", "d", " ", "(", "U", "B", "S", "A", "N", ")">>

str_memory_MSAN == <<"m", "e", "m", "o", "r", "y", " ", "(", "M", "S", "A", "N", ")">>

str_thread_TSAN == <<"t", "h", "r", "e", "a", "d", " ", "(", "T", "S", "A", "N", ")">>

str_leak_LSAN == <<"l", "e", "a", "k", " ", "(", "L", "S", "A", "N", ")">>

special_fuzzers ==
    {<<"j", "s", "_", "f", "u", "z", "z", "e", "r">>,
      <<"f", "t", "f", "u", "z", "z", "e", "r">>,
      <<"m", "a", "g", "i", "c", "_", "f", "u", "z", "z", "e", "r">>,
      <<"g", "u", "e", "t", "z", "l", "i", "_", "f", "u", "z", "z", "e", "r">>}

(***************************************************************************)
(* The field rules.  Each returns Returned(value) or Raised("Warning"),    *)
(* the exception capture raises: a rule that calls another lets its        *)
(* exception through.                                                      *)
(***************************************************************************)
_get_jobtype(description) == capture(description, re_job_type, FALSE, FALSE)

_get_project(description, id) ==
    IF id <= 135
    THEN LET jobtype == _get_jobtype(description)
         IN  IF jobtype.kind = "raise" THEN jobtype
             ELSE LET tokens == split(strip(jobtype.value), "_")
                  IN  Returned(tokens[Len(tokens)])
    ELSE IF 135 <= id /\ id <= 212
    THEN capture(description, re_target, FALSE, FALSE)
    ELSE capture(description, re_project, FALSE, FALSE)

_get_fuzzing_engine(description, id) ==
    IF contains(description, str_Fuzzer_js_fuzzer) THEN Returned(str_js_fuzzer)
    ELSE IF id <= 16307
    THEN LET jobtype == _get_jobtype(description)
         IN  IF jobtype.kind = "raise" THEN jobtype
             ELSE IF startswith(jobtype.value, str_afl) THEN Returned(str_afl)
             ELSE IF startswith(jobtype.value, str_libfuzzer)
             THEN Returned(str_libFuzzer)
             ELSE IF startswith(jobtype.value, str_honggfuzz)
             THEN Returned(str_honggfuzz)
             ELSE Returned(split(jobtype.value, "_")[1])
    ELSE IF id >= 16308
    THEN capture(description, re_fuzzing_engine, FALSE, FALSE)
    ELSE Returned(None)

_get_fuzz_target_binary(description, id) ==
    LET fuzz_target == capture(description, re_fuzz_target, FALSE, TRUE)
        fuzz_target_binary ==
            capture(description, re_fuzz_target_binary, FALSE, TRUE)
        fuzzer_binary == capture(description, re_fuzzer_binary, FALSE, TRUE)
        fuzzer == capture(description, re_fuzzer, FALSE, FALSE)
    IN  IF fuzz_target.value # None THEN fuzz_target
        ELSE IF fuzz_target_binary.value # None THEN fuzz_target_binary
        ELSE IF fuzzer_binary.value # None THEN fuzzer_binary
        ELSE IF fuzzer.kind = "raise" THEN fuzzer
        ELSE IF fuzzer.value \in special_fuzzers THEN fuzzer
        ELSE LET tokens == split_maxsplit1(fuzzer.value, "_")
             IN  IF Len(tokens) <= 1 THEN Returned(<<>>)
                 ELSE Returned(tokens[2])

_get_job_type(description) == capture(description, re_job_type, FALSE, FALSE)

_get_platform_id(description) ==
    LET platform == capture(description, re_platform_id, FALSE, TRUE)
    IN  IF platform.value # None THEN platform ELSE Returned(<<>>)

_get_crash_type(description) ==
    capture(description, re_crash_type, FALSE, FALSE)

_get_crash_address(description) ==
    capture(description, re_crash_address, FALSE, FALSE)

\* the lines of raw, each stripped, the empty ones dropped
RECURSIVE cleaned_lines(_)
cleaned_lines(lines) ==
    IF lines = <<>> THEN <<>>
    ELSE LET cleaned_line == strip(Head(lines))
         IN  IF Len(cleaned_line) > 0
             THEN <<cleaned_line>> \o cleaned_lines(Tail(lines))
             ELSE cleaned_lines(Tail(lines))

_get_crash_state(description) ==
    LET raw_crash_state == capture(description, re_crash_state, TRUE, FALSE)
    IN  IF raw_crash_state.kind = "raise" THEN raw_crash_state
        ELSE Returned(cleaned_lines(split(raw_crash_state.value, "\n")))

RECURSIVE _get_sanitizer_from_jobtype_words(_)
_get_sanitizer_from_jobtype_words(jobtype_words) ==
    IF jobtype_words = <<>> THEN <<>>
    ELSE LET word == Head(jobtype_words)
         IN  IF almost_equal(word, str_asan) THEN str_address_ASAN
             ELSE IF almost_equal(word, str_ubsan) THEN str_undefined_UBSAN
             ELSE IF almost_equal(word, str_msan) THEN str_memory_MSAN
             ELSE IF almost_equal(word, str_tsan) THEN str_thread_TSAN
             ELSE IF almost_equal(word, str_lsan) THEN str_leak_LSAN
             ELSE _get_sanitizer_from_jobtype_words(Tail(jobtype_words))

_get_sanitizer_from_jobtype(jobtype) ==
    _get_sanitizer_from_jobtype_words(split(jobtype, "_"))

_get_sanitizer(description, id) ==
    IF id <= 383
    THEN LET jobtype == capture(description, re_job_type, FALSE, FALSE)
         IN  IF jobtype.kind = "raise" THEN jobtype
             ELSE Returned(_get_sanitizer_from_jobtype(jobtype.value))
    ELSE IF id >= 384
    THEN capture(description, re_sanitizer, FALSE, FALSE)
    ELSE Returned(None)

_get_regressed_commits_url(description) ==
    LET regressed == capture(description, re_regressed, FALSE, TRUE)
        crash_revision == capture(description, re_crash_revision, FALSE, TRUE)
    IN  IF regressed.value # None THEN regressed
        ELSE IF crash_revision.value # None THEN crash_revision
        ELSE Returned(None)

\* the loop over the comments: the first one ClusterFuzz-External wrote whose
\* body the pattern matches
RECURSIVE first_fixed_commits_url(_, _)
first_fixed_commits_url(comments, pattern) ==
    IF comments = <<>> THEN None
    ELSE LET comment == Head(comments)
             match == search(pattern, comment.body, FALSE)
         IN  IF comment.author # str_ClusterFuzz_External
             THEN first_fixed_commits_url(Tail(comments), pattern)
             ELSE IF ~match.matched
             THEN first_fixed_commits_url(Tail(comments), pattern)
             ELSE match.group1

_get_fixed_commits_url(comments, id) ==
    LET regex == IF id <= 14834 THEN re_fixed ELSE re_verified_as_fixed
    IN  Returned(first_fixed_commits_url(comments, regex))

_get_testcase_url(description) ==
    LET reproducer == capture(description, re_reproducer_testcase, FALSE, TRUE)
        minimized == capture(description, re_minimized_testcase, FALSE, TRUE)
        unminimized ==
            capture(description, re_unminimized_testcase, FALSE, TRUE)
    IN  IF reproducer.value # None THEN reproducer
        ELSE IF minimized.value # None THEN minimized
        ELSE IF unminimized.value # None THEN unminimized
        ELSE capture(description, re_download, FALSE, FALSE)

(***************************************************************************)
(* The classifier and the assembler.                                       *)
(***************************************************************************)
\* issue.metadata.get('Type', '')
metadata_get_Type(metadata) ==
    IF "Type" \in DOMAIN metadata THEN metadata["Type"] ELSE <<>>

\* is_oss_fuzz_bug_report asking for the Type key of every issue
is_oss_fuzz_bug_report_type_of_all(issue) ==
    IF "Type" \notin DOMAIN issue.metadata
    THEN Raised("ScrapeException")
    ELSE Returned(/\ almost_equal(str_oss_fuzz, issue.project)
                  /\ almost_equal(str_ClusterFuzz_External, issue.author)
                  /\ \/ almost_equal(str_Bug, issue.metadata["Type"])
                     \/ almost_equal(str_Bug_Security, issue.metadata["Type"]))

\* is_oss_fuzz_bug_report asking for the Type key only of the issues that
\* ClusterFuzz wrote
is_oss_fuzz_bug_report_type_of_authored(issue) ==
    LET is_oss_fuzz == almost_equal(str_oss_fuzz, issue.project)
        authored_by_clusterfuzz ==
            almost_equal(str_ClusterFuzz_External, issue.author)
        is_nonsecurity_bug_report ==
            almost_equal(str_Bug, metadata_get_Type(issue.metadata))
        is_security_bug_report ==
            almost_equal(str_Bug_Security, metadata_get_Type(issue.metadata))
    IN  IF is_oss_fuzz /\ authored_by_clusterfuzz
           /\ "Type" \notin DOMAIN issue.metadata
        THEN Raised("ScrapeException")
        ELSE Returned(/\ is_oss_fuzz
                      /\ authored_by_clusterfuzz
                      /\ (is_nonsecurity_bug_report \/ is_security_bug_report))

is_oss_fuzz_bug_report(issue) ==
    LET is_oss_fuzz == almost_equal(str_oss_fuzz, issue.project)
        authored_by_clusterfuzz ==
            almost_equal(str_ClusterFuzz_External, issue.author)
        is_nonsecurity_bug_report ==
            almost_equal(str_Bug, metadata_get_Type(issue.metadata))
        is_security_bug_report ==
            almost_equal(str_Bug_Security, metadata_get_Type(issue.metadata))
    IN  IF is_oss_fuzz /\ "Type" \notin DOMAIN issue.metadata
        THEN Raised("ScrapeException")
        ELSE Returned(/\ is_oss_fuzz
                      /\ authored_by_clusterfuzz
                      /\ (is_nonsecurity_bug_report \/ is_security_bug_report))

\* the twelve rules in the order they are called
field_rules(issue) ==
    <<_get_project(issue.description, issue.id),
      _get_fuzzing_engine(issue.description, issue.id),
      _get_fuzz_target_binary(issue.description, issue.id),
      _get_job_type(issue.description),
      _get_platform_id(issue.description),
      _get_crash_type(issue.description),
      _get_crash_address(issue.description),
      _get_crash_state(issue.description),
      _get_sanitizer(issue.description, issue.id),
      _get_regressed_commits_url(issue.description),
      _get_fixed_commits_url(issue.comments, issue.id),
      _get_testcase_url(issue.description)>>

\* OSSFuzzBugReport(project=_get_project(...), ...): the arguments are
\* evaluated in order, so the first rule that raises ends the call
OSSFuzzBugReport(fields) ==
    IF \E k \in 1..Len(fields) : fields[k].kind = "raise"
    THEN fields[CHOOSE k \in 1..Len(fields) :
                    /\ fields[k].kind = "raise"
                    /\ \A j \in 1..(k - 1) : fields[j].kind # "raise"]
    ELSE Returned([project |-> fields[1].value,
                   fuzzing_engine |-> fields[2].value,
                   fuzz_target_binary |-> fields[3].value,
                   job_type |-> fields[4].value,
                   platform_id |-> fields[5].value,
                   crash_type |-> fields[6].value,
                   crash_addr |-> fields[7].value,
                   crash_state |-> fields[8].value,
                   sanitizer |-> fields[9].value,
                   regressed_commits_url |-> fields[10].value,
                   fixed_commits_url |-> fields[11].value,
                   testcase_url |-> fields[12].value])

parse_oss_fuzz_bug_report_details(issue) == OSSFuzzBugReport(field_rules(issue))

(***************************************************************************)
(* The state: the issue a call is made on (an Issue with its project, as   *)
(* the parser reads it: id, project, author, metadata, description,        *)
(* comments, oss_fuzz_bug_report), the two arguments of a call of          *)
(* almost_equal, the position (start, or the name of the function that     *)
(* has been called) and the outcome of the call.                           *)
(***************************************************************************)
VARIABLES issue, str1, str2, pc, ret

vars == <<issue, str1, str2, pc, ret>>

NoIssue ==
    [id |-> 0, project |-> <<>>, author |-> <<>>, metadata |-> <<>>,
     description |-> <<>>, comments |-> <<>>, oss_fuzz_bug_report |-> NoReport]

NotCalled == [kind |-> "none"]

\* every sequence over S of at most n elements
SeqsUpTo(S, n) == UNION {[1..k -> S] : k \in 0..n}

RECURSIVE Concat(_)
Concat(ss) == IF ss = <<>> THEN <<>> ELSE Head(ss) \o Concat(Tail(ss))

(***************************************************************************)
(* almost_equal on two arguments, each None or a short string of letters   *)
(* in both cases, blanks and punctuation.                                  *)
(***************************************************************************)
MaxStrLen == 2

EqAlphabet == {"a", "A", " ", "-", "_"}

EqExamples ==
    {<<"O", "S", "S", "-", "F", "u", "z", "z">>,
     <<" ", "o", "s", "s", " ", "f", "u", "z", "z", " ">>,
     <<"o", "s", "s", "_", "f", "u", "z", "z">>,
     <<"\t", "a", "\n">>}

EqInputs == {None} \cup SeqsUpTo(EqAlphabet, MaxStrLen) \cup EqExamples

InitAlmostEqual ==
    /\ issue = NoIssue
    /\ str1 \in EqInputs
    /\ str2 \in EqInputs
    /\ pc = "start"
    /\ ret = NotCalled

CallAlmostEqual ==
    /\ pc = "start"
    /\ pc' = "almost_equal"
    /\ ret' = Returned(almost_equal(str1, str2))
    /\ UNCHANGED <<issue, str1, str2>>

NextAlmostEqual == CallAlmostEqual

SpecAlmostEqual == InitAlmostEqual /\ [][NextAlmostEqual]_vars

(***************************************************************************)
(* The canonical form of a string, as the normalizer is described: its     *)
(* word characters in order, case-folded.  FuzzyEqual is equality of the   *)
(* canonical forms; the claims are stated with it.                         *)
(***************************************************************************)
Canonical(s) ==
    LET w == SelectSeq(s, IsWord) IN [i \in 1..Len(w) |-> FoldChar(w[i])]

FuzzyEqual(a, b) == Canonical(a) = Canonical(b)

\* C9: almost_equal is reflexive and symmetric, None included: two None are
\* equal, None and a string never are, and two strings are equal iff their
\* canonical forms (trimmed, case-folded, every run of non-word characters
\* removed) are identical.
C9_AlmostEqual ==
    pc = "almost_equal" =>
        /\ ret.kind = "return"
        /\ (str1 = None /\ str2 = None => ret.value = TRUE)
        /\ ((str1 = None) # (str2 = None) => ret.value = FALSE)
        /\ (str1 # None /\ str2 # None => ret.value = FuzzyEqual(str1, str2))
        /\ almost_equal(str2, str1) = ret.value
        /\ almost_equal(str1, str1)
        /\ almost_equal(str2, str2)

\* almost_equal("OSS-Fuzz", " oss fuzz ") has returned True
C9_Witness ==
    /\ pc = "almost_equal"
    /\ str1 = <<"O", "S", "S", "-", "F", "u", "z", "z">>
    /\ str2 = <<" ", "o", "s", "s", " ", "f", "u", "z", "z", " ">>
    /\ ret = Returned(TRUE)

(***************************************************************************)
(* is_oss_fuzz_bug_report on issues whose project, author and metadata     *)
(* are, or are near, the ones the classifier looks for.                    *)
(***************************************************************************)
Projects ==
    {<<"o", "s", "s", "-", "f", "u", "z", "z">>,
     <<"O", "S", "S", "-", "F", "u", "z", "z">>,
     <<" ", "o", "s", "s", " ", "f", "u", "z", "z", " ">>,
     <<"o", "s", "s", "f", "u", "z", "z">>,
     <<"o", "s", "s", "_", "f", "u", "z", "z">>,
     <<"o", "s", "s", "-", "f", "u", "z", "z", "y">>,
     <<"c", "h", "r", "o", "m", "i", "u", "m">>,
     <<>>}

Authors ==
    {<<"C", "l", "u", "s", "t", "e", "r", "F", "u", "z", "z", "-", "E", "x", "t", "e", "r", "n", "a", "l">>,
     <<"c", "l", "u", "s", "t", "e", "r", "f", "u", "z", "z", " ", "e", "x", "t", "e", "r", "n", "a", "l", " ">>,
     <<"C", "l", "u", "s", "t", "e", "r", "F", "u", "z", "z">>,
     <<"C", "l", "u", "s", "t", "e", "r", "F", "u", "z", "z", "_", "E", "x", "t", "e", "r", "n", "a", "l">>,
     <<"b", "o", "b">>,
     <<>>}

TypeValues ==
    {<<"B", "u", "g">>,
     <<"B", "u", "g", "-", "S", "e", "c", "u", "r", "i", "t", "y">>,
     <<"b", "u", "g", " ", "s", "e", "c", "u", "r", "i", "t", "y">>,
     <<" ", "B", "U", "G", " ">>,
     <<"B", "u", "g", "_", "S", "e", "c", "u", "r", "i", "t", "y">>,
     <<"F", "e", "a", "t", "u", "r", "e">>,
     <<>>}

Metadatas ==
    {<<>>, [Status |-> <<"N", "e", "w">>]}
    \cup {[Type |-> t] : t \in TypeValues}
    \cup {[Type |-> t, Status |-> <<"N", "e", "w">>] : t \in TypeValues}

InitClassifier ==
    /\ issue \in {[NoIssue EXCEPT !.project = p, !.author = a, !.metadata = m] :
                      p \in Projects, a \in Authors, m \in Metadatas}
    /\ str1 = None
    /\ str2 = None
    /\ pc = "start"
    /\ ret = NotCalled

CallIsOssFuzzBugReport ==
    /\ pc = "start"
    /\ pc' = "is_oss_fuzz_bug_report"
    /\ ret' = is_oss_fuzz_bug_report(issue)
    /\ UNCHANGED <<issue, str1, str2>>

NextClassifier == CallIsOssFuzzBugReport

SpecClassifier == InitClassifier /\ [][NextClassifier]_vars

IsTargetProject == FuzzyEqual(issue.project, str_oss_fuzz)

IsTargetAuthor == FuzzyEqual(issue.author, str_ClusterFuzz_External)

HasType == "Type" \in DOMAIN issue.metadata

\* C1 as stated: a record whose project or author is not the target's is
\* classified False, without an exception, whatever its metadata holds.
C1_Original ==
    pc = "is_oss_fuzz_bug_report" /\ (~IsTargetProject \/ ~IsTargetAuthor)
        => ret = Returned(FALSE)

\* C1 amended: a record whose project is not the target's, or whose author is
\* not the target's while its metadata has the key Type, is classified False
\* without an exception; a record of the target project with no Type key
\* raises ScrapeException also when its author is not the target's.
C1_NotTargetIsFalse ==
    pc = "is_oss_fuzz_bug_report" =>
        /\ (~IsTargetProject \/ (~IsTargetAuthor /\ HasType)
                => ret = Returned(FALSE))
        /\ (IsTargetProject /\ ~IsTargetAuthor /\ ~HasType
                => ret = Raised("ScrapeException"))

\* a record of another project with no Type key has been classified False
C1_Witness ==
    /\ pc = "is_oss_fuzz_bug_report"
    /\ ~IsTargetProject
    /\ IsTargetAuthor
    /\ ~HasType
    /\ ret = Returned(FALSE)

\* C2: the classifier raises exactly when the project is the target's and the
\* metadata has no Type key, whoever the author is; otherwise it returns
\* whether project and author are the target's and the Type value (the empty
\* string by default) fuzzily equals "Bug" or "Bug-Security".
C2_ThreeStepContract ==
    pc = "is_oss_fuzz_bug_report" =>
        IF IsTargetProject /\ ~HasType
        THEN ret = Raised("ScrapeException")
        ELSE LET type_value ==
                     IF HasType THEN issue.metadata["Type"] ELSE <<>>
             IN  ret = Returned(/\ IsTargetProject
                                /\ IsTargetAuthor
                                /\ \/ FuzzyEqual(type_value, str_Bug)
                                   \/ FuzzyEqual(type_value, str_Bug_Security))

\* a security bug of the target project and author, both written loosely, has
\* been classified True
C2_Witness ==
    /\ pc = "is_oss_fuzz_bug_report"
    /\ issue.project # str_oss_fuzz
    /\ issue.author # str_ClusterFuzz_External
    /\ HasType
    /\ issue.metadata["Type"] \notin {str_Bug, str_Bug_Security}
    /\ FuzzyEqual(issue.metadata["Type"], str_Bug_Security)
    /\ ret = Returned(TRUE)

(***************************************************************************)
(* The assembler.                                                          *)
(***************************************************************************)
\* issue.oss_fuzz_bug_report = report, when the parse did not raise
set_oss_fuzz_bug_report(i, report) ==
    IF report.kind = "raise" THEN [issue |-> i, ret |-> report]
    ELSE [issue |-> [i EXCEPT !.oss_fuzz_bug_report = report.value],
          ret |-> Returned(TRUE)]

\* OSSFuzzBugReport with None where a rule raised
found_fields(fields) ==
    [k \in 1..Len(fields) |->
        IF fields[k].kind = "raise" THEN Returned(None) ELSE fields[k]]

\* the classifier's outcome, then the parse when it returned True
attach_classified(i, is_report, report) ==
    IF is_report.kind = "raise" THEN [issue |-> i, ret |-> is_report]
    ELSE IF ~is_report.value THEN [issue |-> i, ret |-> Returned(FALSE)]
    ELSE set_oss_fuzz_bug_report(i, report)

\* attach_oss_fuzz_bug_report attaching what the rules that did not raise
\* have found
attach_oss_fuzz_bug_report_partial(i) ==
    attach_classified(i, is_oss_fuzz_bug_report(i),
                      OSSFuzzBugReport(found_fields(field_rules(i))))

\* the issue after the call and the call's outcome
attach_oss_fuzz_bug_report(i) ==
    attach_classified(i, is_oss_fuzz_bug_report(i),
                      parse_oss_fuzz_bug_report_details(i))

(***************************************************************************)
(* attach_oss_fuzz_bug_report on issues of every era: a description is a   *)
(* report as ClusterFuzz wrote it, in its recent or in its early form,     *)
(* with up to MaxMissing of its lines left out and with or without the     *)
(* line break that ends it.                                                *)
(***************************************************************************)
MaxMissing == 1

RecentReport ==
    <<<<"P", "r", "o", "j", "e", "c", "t", ":", " ", "p", "\n">>,
      <<"F", "u", "z", "z", "i", "n", "g", " ", "E", "n", "g", "i", "n", "e", ":", " ", "a", "f", "l", "\n">>,
      <<"F", "u", "z", "z", " ", "T", "a", "r", "g", "e", "t", ":", " ", "t", "\n">>,
      <<"J", "o", "b", " ", "T", "y", "p", "e", ":", " ", "a", "f", "l", "_", "a", "s", "a", "n", "_", "p", "\n">>,
      <<"P", "l", "a", "t", "f", "o", "r", "m", " ", "I", "d", ":", " ", "l", "i", "n", "u", "x", "\n">>,
      <<"C", "r", "a", "s", "h", " ", "T", "y", "p", "e", ":", " ", "r", "\n">>,
      <<"C", "r", "a", "s", "h", " ", "A", "d", "d", "r", "e", "s", "s", ":", " ", "\n">>,
      <<"C", "r", "a", "s", "h", " ", "S", "t", "a", "t", "e", ":", "\n", " ", " ", "f", "\n", " ", " ", "\n">>,
      <<"S", "a", "n", "i", "t", "i", "z", "e", "r", ":", " ", "a", "d", "d", "r", "e", "s", "s", " ", "(", "A", "S", "A", "N", ")", "\n">>,
      <<"R", "e", "g", "r", "e", "s", "s", "e", "d", ":", " ", "u", "\n">>,
      <<"R", "e", "p", "r", "o", "d", "u", "c", "e", "r", " ", "T", "e", "s", "t", "c", "a", "s", "e", ":", " ", "v", "\n">>>>

EarlyReport ==
    <<<<"T", "a", "r", "g", "e", "t", ":", " ", "p", "\n">>,
      <<"F", "u", "z", "z", "e", "r", ":", " ", "l", "i", "b", "F", "u", "z", "z", "e", "r", "_", "p", "_", "t", "\n">>,
      <<"J", "o", "b", " ", "T", "y", "p", "e", ":", " ", "l", "i", "b", "f", "u", "z", "z", "e", "r", "_", "u", "b", "s", "a", "n", "_", "p", "\n">>,
      <<"C", "r", "a", "s", "h", " ", "T", "y", "p", "e", ":", " ", "r", "\n">>,
      <<"C", "r", "a", "s", "h", " ", "A", "d", "d", "r", "e", "s", "s", ":", " ", "0", "x", "1", "\n">>,
      <<"C", "r", "a", "s", "h", " ", "S", "t", "a", "t", "e", ":", "\n", " ", " ", "f", "\n", " ", " ", "g", "\n", "\n">>,
      <<"C", "r", "a", "s", "h", " ", "R", "e", "v", "i", "s", "i", "o", "n", ":", " ", "u", "\n">>,
      <<"M", "i", "n", "i", "m", "i", "z", "e", "d", " ", "T", "e", "s", "t", "c", "a", "s", "e", " ", "(", "1", " ", "K", "b", ")", ":", " ", "v", "\n">>,
      <<"D", "o", "w", "n", "l", "o", "a", "d", ":", " ", "w", "\n">>>>

\* the lines of report but those of the indices in missing
RECURSIVE Leave(_, _, _)
Leave(report, missing, i) ==
    IF i > Len(report) THEN <<>>
    ELSE (IF i \in missing THEN <<>> ELSE report[i])
         \o Leave(report, missing, i + 1)

Descriptions(report) ==
    LET whole == {Leave(report, missing, 1) :
                      missing \in {m \in SUBSET (1..Len(report)) :
                                       Cardinality(m) <= MaxMissing}}
    IN  whole \cup {SubSeq(d, 1, Len(d) - 1) : d \in whole \ {<<>>}}

\* the ids at which a rule changes, and their neighbours
EraIds == {135, 136, 212, 213, 383, 384, 16307, 16308}

CommentThreads ==
    {<<>>,
     <<[author |-> <<"b", "o", "b">>, body |-> <<"F", "i", "x", "e", "d", ":", " ", "x", "\n", "C", "l", "u", "s", "t", "e", "r", "F", "u", "z", "z", " ", "t", "e", "s", "t", "c", "a", "s", "e", " ", "1", " ", "i", "s", " ", "v", "e", "r", "i", "f", "i", "e", "d", " ", "a", "s", " ", "f", "i", "x", "e", "d", " ", "i", "n", " ", "y", "\n">>],
       [author |-> str_ClusterFuzz_External, body |-> <<"F", "i", "x", "e", "d", ":", " ", "x", "\n", "C", "l", "u", "s", "t", "e", "r", "F", "u", "z", "z", " ", "t", "e", "s", "t", "c", "a", "s", "e", " ", "1", " ", "i", "s", " ", "v", "e", "r", "i", "f", "i", "e", "d", " ", "a", "s", " ", "f", "i", "x", "e", "d", " ", "i", "n", " ", "y", "\n">>]>>}

\* project, author and metadata: a report in scope, and four that are not
Classifications ==
    {[project |-> str_oss_fuzz, author |-> str_ClusterFuzz_External,
      metadata |-> [Type |-> str_Bug]],
     [project |-> <<"c", "h", "r", "o", "m", "i", "u", "m">>, author |-> str_ClusterFuzz_External,
      metadata |-> <<>>],
     [project |-> str_oss_fuzz, author |-> <<"b", "o", "b">>, metadata |-> <<>>],
     [project |-> str_oss_fuzz, author |-> <<"b", "o", "b">>,
      metadata |-> [Type |-> str_Bug]],
     [project |-> str_oss_fuzz, author |-> str_ClusterFuzz_External,
      metadata |-> [Type |-> <<"F", "e", "a", "t", "u", "r", "e">>]]}

Init ==
    /\ issue \in {[id |-> n, project |-> c.project, author |-> c.author,
                   metadata |-> c.metadata, description |-> d,
                   comments |-> t, oss_fuzz_bug_report |-> NoReport] :
                      n \in EraIds, c \in Classifications,
                      d \in Descriptions(RecentReport)
                            \cup Descriptions(EarlyReport),
                      t \in CommentThreads}
    /\ str1 = None
    /\ str2 = None
    /\ pc = "start"
    /\ ret = NotCalled

\* a call of attach_oss_fuzz_bug_report(issue), the first or a later one
CallAttachOssFuzzBugReport ==
    /\ pc \in {"start", "attach_oss_fuzz_bug_report"}
    /\ pc' = "attach_oss_fuzz_bug_report"
    /\ \E call \in {attach_oss_fuzz_bug_report(issue)} :
           issue' = call.issue /\ ret' = call.ret
    /\ UNCHANGED <<str1, str2>>

Next == CallAttachOssFuzzBugReport

Spec == Init /\ [][Next]_vars

StringFields ==
    {"project", "fuzzing_engine", "fuzz_target_binary", "job_type",
     "platform_id", "crash_type", "crash_addr", "sanitizer", "testcase_url"}

\* a str, the empty one included, and not None
IsString(v) == v # None /\ DOMAIN v = 1..Len(v)

\* C3: attach_oss_fuzz_bug_report is all-or-nothing.  After a call the issue
\* carries a report iff the call returned True; a call that did not return
\* True leaves the issue as it was; the call raises exactly when the
\* classifier raises or, the classifier having returned True, one of the
\* twelve rules raises, and then nothing is attached; and a call that returned
\* True changed nothing but the report, whose project, fuzzing_engine,
\* fuzz_target_binary, job_type, platform_id, crash_type, crash_addr,
\* sanitizer and testcase_url are strings, at every id.
C3_AllOrNothing ==
    [][pc' = "attach_oss_fuzz_bug_report" =>
        LET classified == is_oss_fuzz_bug_report(issue)
            rules == field_rules(issue)
        IN  /\ (issue'.oss_fuzz_bug_report # NoReport) = (ret' = Returned(TRUE))
            /\ (ret' # Returned(TRUE) => issue' = issue)
            /\ (ret'.kind = "raise") =
                   \/ classified.kind = "raise"
                   \/ /\ classified = Returned(TRUE)
                      /\ \E k \in 1..12 : rules[k].kind = "raise"
            /\ (ret'.kind = "return" =>
                   ret'.value = (classified = Returned(TRUE)))
            /\ (ret' = Returned(TRUE) =>
                   /\ issue' = [issue EXCEPT !.oss_fuzz_bug_report =
                                                issue'.oss_fuzz_bug_report]
                   /\ \A f \in StringFields :
                          IsString(issue'.oss_fuzz_bug_report[f]))]_vars

\* a report with no Platform Id line has been attached at the id 383, its
\* platform_id the empty string
C3_Witness ==
    /\ pc = "attach_oss_fuzz_bug_report"
    /\ ret = Returned(TRUE)
    /\ issue.id = 383
    /\ issue.oss_fuzz_bug_report # NoReport
    /\ issue.oss_fuzz_bug_report.platform_id = <<>>
    /\ issue.oss_fuzz_bug_report.fixed_commits_url # None

(***************************************************************************)
(* A field as the specification words it: the value after a marker runs to *)
(* the end of its line, or to the end of the text.                         *)
(***************************************************************************)
\* the position of the line break that ends the line of pos, Len(text) + 1
\* when the text ends first
EndOfLine(text, pos) ==
    CHOOSE k \in pos..(Len(text) + 1) :
        /\ k = Len(text) + 1 \/ text[k] = "\n"
        /\ \A j \in pos..(k - 1) : text[j] # "\n"

\* the places <<pos, marker>> at which a marker of markers stands in text with
\* at least min characters after it on its line
MarkerPlaces(text, markers, min) ==
    {pm \in (1..Len(text)) \X markers :
        /\ LitAt(text, pm[2], pm[1])
        /\ EndOfLine(text, pm[1] + Len(pm[2])) - (pm[1] + Len(pm[2])) >= min}

\* the value of the first such place, None when there is none
LineField(text, markers, min) ==
    LET at == MarkerPlaces(text, markers, min)
        first == CHOOSE pm \in at : \A q \in at : pm[1] <= q[1]
        from == first[1] + Len(first[2])
    IN  IF at = {} THEN None
        ELSE SubSeq(text, from, EndOfLine(text, from) - 1)

\* a strict capture: a hard failure when the field is missing
Strict(value) == IF value = None THEN Raised("Warning") ELSE Returned(value)

\* a capture with a default
OrDefault(value, default) == IF value = None THEN default ELSE value

IssueOf(id, description, comments) ==
    [NoIssue EXCEPT !.id = id, !.description = description,
                    !.comments = comments]

\* every text of at most n of the lines, and each without the line break that
\* ends it
Texts(lines, n) ==
    LET whole == {Concat(ls) : ls \in SeqsUpTo(lines, n)}
    IN  whole \cup {SubSeq(d, 1, Len(d) - 1) : d \in whole \ {<<>>}}

(***************************************************************************)
(* The single-line fields: _get_job_type, _get_platform_id,                *)
(* _get_crash_type and _get_crash_address on texts of at most MaxLines     *)
(* marker lines whose values have at most MaxValueLen characters.          *)
(***************************************************************************)
MaxValueLen == 2

MaxLines == 2

ValueAlphabet == {"a", "$"}

mark_Job_Type == <<"J", "o", "b", " ", "T", "y", "p", "e", ":", " ">>

mark_Platform_Id == <<"P", "l", "a", "t", "f", "o", "r", "m", " ", "I", "d", ":", " ">>

mark_Crash_Type == <<"C", "r", "a", "s", "h", " ", "T", "y", "p", "e", ":", " ">>

mark_Crash_Address == <<"C", "r", "a", "s", "h", " ", "A", "d", "d", "r", "e", "s", "s", ":", " ">>

LineFieldLines ==
    {m \o v \o <<"\n">> :
        m \in {mark_Job_Type, mark_Platform_Id, mark_Crash_Type,
               mark_Crash_Address},
        v \in SeqsUpTo(ValueAlphabet, MaxValueLen)}

InitLineField ==
    /\ issue \in {IssueOf(1, d, <<>>) : d \in Texts(LineFieldLines, MaxLines)}
    /\ str1 = None
    /\ str2 = None
    /\ pc = "start"
    /\ ret = NotCalled

CallGetJobType ==
    /\ pc = "start"
    /\ pc' = "_get_job_type"
    /\ ret' = _get_job_type(issue.description)
    /\ UNCHANGED <<issue, str1, str2>>

CallGetPlatformId ==
    /\ pc = "start"
    /\ pc' = "_get_platform_id"
    /\ ret' = _get_platform_id(issue.description)
    /\ UNCHANGED <<issue, str1, str2>>

CallGetCrashType ==
    /\ pc = "start"
    /\ pc' = "_get_crash_type"
    /\ ret' = _get_crash_type(issue.description)
    /\ UNCHANGED <<issue, str1, str2>>

CallGetCrashAddress ==
    /\ pc = "start"
    /\ pc' = "_get_crash_address"
    /\ ret' = _get_crash_address(issue.description)
    /\ UNCHANGED <<issue, str1, str2>>

NextLineField ==
    \/ CallGetJobType
    \/ CallGetPlatformId
    \/ CallGetCrashType
    \/ CallGetCrashAddress

SpecLineField == InitLineField /\ [][NextLineField]_vars

\* C4: every single-line field pattern stops at end-of-line or end-of-text.
\* Each of the four rules returns the full value that follows its marker,
\* whether a line break or the end of the text comes after it, and the strict
\* ones fail only when no marker line is there.
C4_EndOfLineOrEndOfText ==
    /\ pc = "_get_job_type" =>
           ret = Strict(LineField(issue.description, {mark_Job_Type}, 1))
    /\ pc = "_get_platform_id" =>
           ret = Returned(OrDefault(LineField(issue.description,
                                              {mark_Platform_Id}, 1), <<>>))
    /\ pc = "_get_crash_type" =>
           ret = Strict(LineField(issue.description, {mark_Crash_Type}, 0))
    /\ pc = "_get_crash_address" =>
           ret = Strict(LineField(issue.description, {mark_Crash_Address}, 0))

\* _get_job_type has failed on a text that is a Job Type line without the
\* line break
C4_Witness ==
    /\ pc = "_get_job_type"
    /\ issue.description = mark_Job_Type \o <<"a">>
    /\ ret = Raised("Warning")

\* on the texts that end with a line break and have no dollar sign the four
\* rules return the value of the marker line
C4_HoldsOnTerminatedLines ==
    (/\ issue.description # <<>>
     /\ issue.description[Len(issue.description)] = "\n"
     /\ "$" \notin Range(issue.description)) => C4_EndOfLineOrEndOfText

(***************************************************************************)
(* _get_fixed_commits_url on threads of at most MaxComments comments, at   *)
(* the ids on either side of the change of pattern.                        *)
(***************************************************************************)
MaxComments == 2

mark_Fixed == <<"F", "i", "x", "e", "d", ":", " ">>

mark_ClusterFuzz_testcase == <<"C", "l", "u", "s", "t", "e", "r", "F", "u", "z", "z", " ", "t", "e", "s", "t", "c", "a", "s", "e", " ">>

mark_is_verified_as_fixed_in == <<" ", "i", "s", " ", "v", "e", "r", "i", "f", "i", "e", "d", " ", "a", "s", " ", "f", "i", "x", "e", "d", " ", "i", "n", " ">>

\* the body of the specification's example
body_verified_abcd1234 == <<"C", "l", "u", "s", "t", "e", "r", "F", "u", "z", "z", " ", "t", "e", "s", "t", "c", "a", "s", "e", " ", "1", "2", "3", " ", "i", "s", " ", "v", "e", "r", "i", "f", "i", "e", "d", " ", "a", "s", " ", "f", "i", "x", "e", "d", " ", "i", "n", " ", "a", "b", "c", "d", "1", "2", "3", "4">>

CommentAuthors ==
    {str_ClusterFuzz_External,
     <<"c", "l", "u", "s", "t", "e", "r", "f", "u", "z", "z", "-", "e", "x", "t", "e", "r", "n", "a", "l">>,
     <<"b", "o", "b">>}

CommentBodies ==
    {<<"F", "i", "x", "e", "d", ":", " ", "x", "\n">>,
     <<"F", "i", "x", "e", "d", ":", " ", "y">>,
     body_verified_abcd1234,
     <<"C", "l", "u", "s", "t", "e", "r", "F", "u", "z", "z", " ", "t", "e", "s", "t", "c", "a", "s", "e", " ", "1", " ", "i", "s", " ", "v", "e", "r", "i", "f", "i", "e", "d", " ", "a", "s", " ", "f", "i", "x", "e", "d", " ", "i", "n", " ", "z", "\n">>,
     <<"u", "n", "r", "e", "l", "a", "t", "e", "d">>}

FixedCommitsIds == {14834, 14835, 20000}

InitFixedCommits ==
    /\ issue \in {IssueOf(n, <<>>, t) :
                     n \in FixedCommitsIds,
                     t \in SeqsUpTo({[author |-> a, body |-> b] :
                                        a \in CommentAuthors,
                                        b \in CommentBodies}, MaxComments)}
    /\ str1 = None
    /\ str2 = None
    /\ pc = "start"
    /\ ret = NotCalled

CallGetFixedCommitsUrl ==
    /\ pc = "start"
    /\ pc' = "_get_fixed_commits_url"
    /\ ret' = _get_fixed_commits_url(issue.comments, issue.id)
    /\ UNCHANGED <<issue, str1, str2>>

NextFixedCommits == CallGetFixedCommitsUrl

SpecFixedCommits == InitFixedCommits /\ [][NextFixedCommits]_vars

\* the runs of digits of text
DigitRuns(text) ==
    {SubSeq(text, ij[1], ij[2]) :
        ij \in {ij \in (1..Len(text)) \X (1..Len(text)) :
                   /\ ij[1] <= ij[2]
                   /\ \A k \in ij[1]..ij[2] : text[k] \in Digits}}

\* the value body states under the pattern of the id's era, None when it
\* states none
FixedIn(body, id) ==
    IF id <= 14834 THEN LineField(body, {mark_Fixed}, 1)
    ELSE LineField(body,
                   {mark_ClusterFuzz_testcase \o digits
                        \o mark_is_verified_as_fixed_in :
                            digits \in DigitRuns(body)},
                   1)

\* the comments ClusterFuzz-External wrote whose body states a value
Qualifying(comments, id) ==
    {k \in 1..Len(comments) :
        /\ comments[k].author = str_ClusterFuzz_External
        /\ FixedIn(comments[k].body, id) # None}

\* C5: _get_fixed_commits_url returns the value of the first comment, in
\* thread order, that ClusterFuzz-External (exactly) wrote and whose body
\* holds the pattern of the id's era, and None iff there is no such comment;
\* at the id 20000 the one comment "ClusterFuzz testcase 123 is verified as
\* fixed in abcd1234" yields "abcd1234".
C5_FirstQualifyingComment ==
    pc = "_get_fixed_commits_url" =>
        LET qualifying == Qualifying(issue.comments, issue.id)
            first == CHOOSE k \in qualifying : \A j \in qualifying : k <= j
        IN  /\ ret = Returned(IF qualifying = {} THEN None
                              ELSE FixedIn(issue.comments[first].body,
                                           issue.id))
            /\ (/\ issue.id = 20000
                /\ issue.comments = <<[author |-> str_ClusterFuzz_External,
                                       body |-> body_verified_abcd1234]>>)
                   => ret = Returned(<<"a", "b", "c", "d", "1", "2", "3", "4">>)

\* the example of the specification has been run, and the result is None
C5_Witness ==
    /\ pc = "_get_fixed_commits_url"
    /\ issue.id = 20000
    /\ issue.comments = <<[author |-> str_ClusterFuzz_External,
                           body |-> body_verified_abcd1234]>>
    /\ ret = Returned(None)

\* on the threads whose bodies end with a line break the result is the value
\* of the first qualifying comment
C5_HoldsOnTerminatedLines ==
    (\A k \in 1..Len(issue.comments) :
        issue.comments[k].body[Len(issue.comments[k].body)] = "\n")
        => C5_FirstQualifyingComment

(***************************************************************************)
(* _get_project on texts of at most MaxLines lines that carry the markers  *)
(* of every era, at the ids on either side of each change of rule.         *)
(***************************************************************************)
mark_Target == <<"T", "a", "r", "g", "e", "t", ":", " ">>

mark_Project == <<"P", "r", "o", "j", "e", "c", "t", ":", " ">>

ProjectLines ==
    {<<"J", "o", "b", " ", "T", "y", "p", "e", ":", " ", "a", "f", "l", "_", "a", "s", "a", "n", "_", "p", "\n">>,
     <<"J", "o", "b", " ", "T", "y", "p", "e", ":", " ", "q", " ", "\n">>,
     <<"T", "a", "r", "g", "e", "t", ":", " ", "t", "\n">>,
     <<"P", "r", "o", "j", "e", "c", "t", ":", " ", "r", "\n">>,
     <<"F", "u", "z", "z", " ", "T", "a", "r", "g", "e", "t", ":", " ", "x", "\n">>}

ProjectIds == {135, 136, 212, 213}

InitProject ==
    /\ issue \in {IssueOf(n, d, <<>>) :
                     n \in ProjectIds, d \in Texts(ProjectLines, MaxLines)}
    /\ str1 = None
    /\ str2 = None
    /\ pc = "start"
    /\ ret = NotCalled

CallGetProject ==
    /\ pc = "start"
    /\ pc' = "_get_project"
    /\ ret' = _get_project(issue.description, issue.id)
    /\ UNCHANGED <<issue, str1, str2>>

NextProject == CallGetProject

SpecProject == InitProject /\ [][NextProject]_vars

\* what follows the last underscore of s, s itself when it has none
LastToken(s) ==
    SubSeq(s,
           CHOOSE k \in 1..(Len(s) + 1) :
               /\ k = 1 \/ s[k - 1] = "_"
               /\ \A j \in k..Len(s) : s[j] # "_",
           Len(s))

\* what precedes the first underscore of s, s itself when it has none
FirstToken(s) ==
    SubSeq(s, 1,
           CHOOSE k \in 0..Len(s) :
               /\ k = Len(s) \/ s[k + 1] = "_"
               /\ \A j \in 1..k : s[j] # "_")

\* value, when there is one, through f; the hard failure otherwise
StrictThen(value, f(_)) ==
    IF value = None THEN Raised("Warning") ELSE Returned(f(value))

\* C6: _get_project takes exactly one rule by the id.  Up to 135, 135
\* included, the result is the last token of the job type between
\* underscores; from 136 to 212 it is the strict capture of "Target: <value>";
\* from 213 on it is the strict capture of "Project: <value>", whatever other
\* markers the description holds.
C6_OneRulePerEpoch ==
    pc = "_get_project" =>
        ret = IF issue.id <= 135
              THEN StrictThen(LineField(issue.description,
                                        {mark_Job_Type}, 1), LastToken)
              ELSE IF issue.id <= 212
              THEN Strict(LineField(issue.description, {mark_Target}, 1))
              ELSE Strict(LineField(issue.description, {mark_Project}, 1))

\* at the id 213 a description with a Job Type line and then a Project line
\* that ends the text has made _get_project fail
C6_Witness ==
    /\ pc = "_get_project"
    /\ issue.id = 213
    /\ issue.description =
           <<"J", "o", "b", " ", "T", "y", "p", "e", ":", " ", "a", "f", "l", "_", "a", "s", "a", "n", "_", "p", "\n", "P", "r", "o", "j", "e", "c", "t", ":", " ", "r">>
    /\ ret = Raised("Warning")

\* a text whose last line ends with a line break
EndsWithLineBreak(text) == text # <<>> /\ text[Len(text)] = "\n"

\* on the texts that end with a line break, and whose job type has no blank
\* at its end, the rule of the epoch gives the result
C6_HoldsOnTerminatedLines ==
    (/\ EndsWithLineBreak(issue.description)
     /\ ~contains(issue.description, <<" ", "\n">>)) => C6_OneRulePerEpoch

(***************************************************************************)
(* _get_fuzzing_engine at the ids 16307 and 16308.                         *)
(***************************************************************************)
mark_Fuzzing_Engine == <<"F", "u", "z", "z", "i", "n", "g", " ", "E", "n", "g", "i", "n", "e", ":", " ">>

mark_Fuzzing_engine == <<"F", "u", "z", "z", "i", "n", "g", " ", "e", "n", "g", "i", "n", "e", ":", " ">>

FuzzingEngineLines ==
    {<<"J", "o", "b", " ", "T", "y", "p", "e", ":", " ", "a", "f", "l", "_", "a", "s", "a", "n", "_", "p", "\n">>,
     <<"J", "o", "b", " ", "T", "y", "p", "e", ":", " ", "l", "i", "b", "f", "u", "z", "z", "e", "r", "_", "a", "s", "a", "n", "_", "p", "\n">>,
     <<"J", "o", "b", " ", "T", "y", "p", "e", ":", " ", "h", "o", "n", "g", "g", "f", "u", "z", "z", "_", "a", "s", "a", "n", "_", "p", "\n">>,
     <<"J", "o", "b", " ", "T", "y", "p", "e", ":", " ", "x", "_", "y", "\n">>,
     <<"F", "u", "z", "z", "i", "n", "g", " ", "E", "n", "g", "i", "n", "e", ":", " ", "e", "\n">>,
     <<"F", "u", "z", "z", "i", "n", "g", " ", "e", "n", "g", "i", "n", "e", ":", " ", "f", "\n">>,
     <<"F", "u", "z", "z", "e", "r", ":", " ", "j", "s", "_", "f", "u", "z", "z", "e", "r", "\n">>}

FuzzingEngineIds == {16307, 16308}

InitFuzzingEngine ==
    /\ issue \in {IssueOf(n, d, <<>>) :
                     n \in FuzzingEngineIds,
                     d \in Texts(FuzzingEngineLines, MaxLines)}
    /\ str1 = None
    /\ str2 = None
    /\ pc = "start"
    /\ ret = NotCalled

CallGetFuzzingEngine ==
    /\ pc = "start"
    /\ pc' = "_get_fuzzing_engine"
    /\ ret' = _get_fuzzing_engine(issue.description, issue.id)
    /\ UNCHANGED <<issue, str1, str2>>

NextFuzzingEngine == CallGetFuzzingEngine

SpecFuzzingEngine == InitFuzzingEngine /\ [][NextFuzzingEngine]_vars

\* sub stands somewhere in text
Occurs(text, sub) == \E pos \in 1..Len(text) : LitAt(text, sub, pos)

\* the engine a job type names
EngineOfJobType(jobtype) ==
    IF LitAt(jobtype, str_afl, 1) THEN str_afl
    ELSE IF LitAt(jobtype, str_libfuzzer, 1) THEN str_libFuzzer
    ELSE IF LitAt(jobtype, str_honggfuzz, 1) THEN str_honggfuzz
    ELSE FirstToken(jobtype)

\* C7: _get_fuzzing_engine returns "js_fuzzer" at every id when the
\* description holds "Fuzzer: js_fuzzer"; otherwise up to the id 16307 the
\* engine the job type names (afl, libFuzzer, honggfuzz by prefix, else the
\* first token between underscores) and from 16308 on the strict capture of
\* "Fuzzing Engine: <value>", so a description with a job type and an engine
\* line gives the one at 16307 and the other at 16308.
C7_EngineByIdEra ==
    pc = "_get_fuzzing_engine" =>
        ret = IF Occurs(issue.description, str_Fuzzer_js_fuzzer)
              THEN Returned(str_js_fuzzer)
              ELSE IF issue.id <= 16307
              THEN StrictThen(LineField(issue.description,
                                        {mark_Job_Type}, 1), EngineOfJobType)
              ELSE Strict(LineField(issue.description,
                                    {mark_Fuzzing_Engine, mark_Fuzzing_engine},
                                    1))

\* at the id 16308 a description with a job type and then an engine line that
\* ends the text has made _get_fuzzing_engine fail
C7_Witness ==
    /\ pc = "_get_fuzzing_engine"
    /\ issue.id = 16308
    /\ issue.description =
           <<"J", "o", "b", " ", "T", "y", "p", "e", ":", " ", "a", "f", "l", "_", "a", "s", "a", "n", "_", "p", "\n", "F", "u", "z", "z", "i", "n", "g", " ", "E", "n", "g", "i", "n", "e", ":", " ", "e">>
    /\ ret = Raised("Warning")

\* on the texts that end with a line break the rule of the era gives the
\* result
C7_HoldsOnTerminatedLines ==
    EndsWithLineBreak(issue.description) => C7_EngineByIdEra

(***************************************************************************)
(* _get_fuzz_target_binary on texts that hold the markers in every order.  *)
(***************************************************************************)
mark_Fuzz_Target == <<"F", "u", "z", "z", " ", "T", "a", "r", "g", "e", "t", ":", " ">>

mark_Fuzz_target == <<"F", "u", "z", "z", " ", "t", "a", "r", "g", "e", "t", ":", " ">>

mark_Fuzz_target_binary == <<"F", "u", "z", "z", " ", "t", "a", "r", "g", "e", "t", " ", "b", "i", "n", "a", "r", "y", ":", " ">>

mark_Fuzzer_binary == <<"F", "u", "z", "z", "e", "r", " ", "b", "i", "n", "a", "r", "y", ":", " ">>

mark_Fuzzer == <<"F", "u", "z", "z", "e", "r", ":", " ">>

FuzzTargetBinaryLines ==
    {<<"F", "u", "z", "z", " ", "T", "a", "r", "g", "e", "t", ":", " ", "a", "\n">>,
     <<"F", "u", "z", "z", " ", "t", "a", "r", "g", "e", "t", ":", " ", "b", "\n">>,
     <<"F", "u", "z", "z", " ", "t", "a", "r", "g", "e", "t", " ", "b", "i", "n", "a", "r", "y", ":", " ", "c", "\n">>,
     <<"F", "u", "z", "z", "e", "r", " ", "b", "i", "n", "a", "r", "y", ":", " ", "d", "\n">>,
     <<"F", "u", "z", "z", "e", "r", ":", " ", "j", "s", "_", "f", "u", "z", "z", "e", "r", "\n">>,
     <<"F", "u", "z", "z", "e", "r", ":", " ", "a", "f", "l", "_", "x", "_", "y", "\n">>,
     <<"F", "u", "z", "z", "e", "r", ":", " ", "z", "\n">>}

InitFuzzTargetBinary ==
    /\ issue \in {IssueOf(1, d, <<>>) :
                     d \in Texts(FuzzTargetBinaryLines, MaxLines)}
    /\ str1 = None
    /\ str2 = None
    /\ pc = "start"
    /\ ret = NotCalled

CallGetFuzzTargetBinary ==
    /\ pc = "start"
    /\ pc' = "_get_fuzz_target_binary"
    /\ ret' = _get_fuzz_target_binary(issue.description, issue.id)
    /\ UNCHANGED <<issue, str1, str2>>

NextFuzzTargetBinary == CallGetFuzzTargetBinary

SpecFuzzTargetBinary == InitFuzzTargetBinary /\ [][NextFuzzTargetBinary]_vars

\* what follows the first underscore of s, the empty string when it has none
AfterFirstToken(s) == SubSeq(s, Len(FirstToken(s)) + 2, Len(s))

\* the binary the value of a "Fuzzer:" line names
BinaryOfFuzzer(fuzzer) ==
    IF fuzzer \in special_fuzzers THEN fuzzer ELSE AfterFirstToken(fuzzer)

\* the first of the values that is not None, None when every one is
RECURSIVE FirstPresent(_)
FirstPresent(values) ==
    IF values = <<>> THEN None
    ELSE IF Head(values) # None THEN Head(values)
    ELSE FirstPresent(Tail(values))

\* C10: _get_fuzz_target_binary returns the first that is present of
\* "Fuzz Target:", "Fuzz target binary:" and "Fuzzer binary:", in this order
\* wherever the markers stand in the text; when none is present it takes the
\* strict capture of "Fuzzer: <value>" and returns it as it is when it is
\* js_fuzzer, ftfuzzer, magic_fuzzer or guetzli_fuzzer, and otherwise what
\* follows its first underscore, the empty string when it has none.
C10_PriorityOfMarkers ==
    pc = "_get_fuzz_target_binary" =>
        LET present ==
                FirstPresent(
                    <<LineField(issue.description,
                                {mark_Fuzz_Target, mark_Fuzz_target}, 1),
                      LineField(issue.description,
                                {mark_Fuzz_target_binary}, 1),
                      LineField(issue.description, {mark_Fuzzer_binary}, 1)>>)
        IN  ret = IF present # None THEN Returned(present)
                  ELSE StrictThen(LineField(issue.description,
                                            {mark_Fuzzer}, 1), BinaryOfFuzzer)

\* a "Fuzz Target:" line that ends the text, after a "Fuzzer binary:" line,
\* has been passed over
C10_Witness ==
    /\ pc = "_get_fuzz_target_binary"
    /\ issue.description = <<"F", "u", "z", "z", "e", "r", " ", "b", "i", "n", "a", "r", "y", ":", " ", "d", "\n", "F", "u", "z", "z", " ", "T", "a", "r", "g", "e", "t", ":", " ", "a">>
    /\ ret = Returned(<<"d">>)

\* on the texts that end with a line break the first marker present, in the
\* order of priority, gives the result
C10_HoldsOnTerminatedLines ==
    EndsWithLineBreak(issue.description) => C10_PriorityOfMarkers

(***************************************************************************)
(* _get_crash_state on a "Crash State:" line followed by at most           *)
(* MaxBlockLines lines: frames, blank lines and the Sanitizer line, and on *)
(* the example of the specification.                                       *)
(***************************************************************************)
MaxBlockLines == 3

mark_Crash_State == <<"C", "r", "a", "s", "h", " ", "S", "t", "a", "t", "e", ":", "\n">>

mark_Sanitizer == <<"S", "a", "n", "i", "t", "i", "z", "e", "r">>

CrashStateLines ==
    {<<" ", " ", "f", "\n">>,
     <<"g", " ", "\n">>,
     <<"\n">>,
     <<" ", " ", "\n">>,
     <<"S", "a", "n", "i", "t", "i", "z", "e", "r", ":", " ", "x", "\n">>}

crash_state_example ==
    <<"C", "r", "a", "s", "h", " ", "S", "t", "a", "t", "e", ":", "\n", " ", " ", "t", "o", "p", " ", "f", "r", "a", "m", "e", "\n", " ", " ", "m", "i", "d", "d", "l", "e", "\n", " ", " ", "b", "o", "t", "t", "o", "m", "\n", "\n", "S", "a", "n", "i", "t", "i", "z", "e", "r", ":", " ", "A", "S", "A", "N">>

InitCrashState ==
    /\ issue \in {IssueOf(1, d, <<>>) :
                     d \in {mark_Crash_State \o block :
                               block \in Texts(CrashStateLines, MaxBlockLines)}
                           \cup {crash_state_example}}
    /\ str1 = None
    /\ str2 = None
    /\ pc = "start"
    /\ ret = NotCalled

CallGetCrashState ==
    /\ pc = "start"
    /\ pc' = "_get_crash_state"
    /\ ret' = _get_crash_state(issue.description)
    /\ UNCHANGED <<issue, str1, str2>>

NextCrashState == CallGetCrashState

SpecCrashState == InitCrashState /\ [][NextCrashState]_vars

\* s without the whitespace around it
Trimmed(s) ==
    LET inked == {k \in 1..Len(s) : s[k] \notin Whitespace}
    IN  IF inked = {} THEN <<>>
        ELSE SubSeq(s, CHOOSE k \in inked : \A j \in inked : k <= j,
                       CHOOSE k \in inked : \A j \in inked : j <= k)

\* what follows the first "Crash State:" line of text
AfterCrashState(text) ==
    LET at == {pos \in 1..Len(text) : LitAt(text, mark_Crash_State, pos)}
    IN  SubSeq(text,
               (CHOOSE pos \in at : \A q \in at : pos <= q)
                   + Len(mark_Crash_State),
               Len(text))

\* the positions of text at which a line starts
LineStarts(text) ==
    {1} \cup {k + 1 : k \in {j \in 1..Len(text) : text[j] = "\n"}}

LineAt(text, start) == SubSeq(text, start, EndOfLine(text, start) - 1)

\* the starts of the lines that end a block: a line that begins with
\* "Sanitizer", or a blank line
BlockEnds(text) ==
    {start \in LineStarts(text) :
        \/ LitAt(text, mark_Sanitizer, start)
        \/ /\ EndOfLine(text, start) <= Len(text)
           /\ Trimmed(LineAt(text, start)) = <<>>}

\* the starts of the lines of the block: those before the first line that
\* ends it
BlockLines(text) ==
    {start \in LineStarts(text) : \A end \in BlockEnds(text) : start < end}

\* the lines that start at the positions of starts, in their order, trimmed,
\* the empty ones dropped
TrimmedLines(text, starts) ==
    LET kept == {start \in starts : Trimmed(LineAt(text, start)) # <<>>}
    IN  [i \in 1..Cardinality(kept) |->
            Trimmed(LineAt(text,
                           CHOOSE start \in kept :
                               Cardinality({u \in kept : u <= start}) = i))]

\* C8: _get_crash_state returns the lines of the block between "Crash State:"
\* and the next "Sanitizer" marker or blank line, each trimmed, the empty ones
\* dropped, in their order; every element it returns is non-empty and has no
\* whitespace around it; an empty block gives the empty sequence; and the
\* example gives top frame, middle, bottom.
C8_BlockLines ==
    pc = "_get_crash_state" =>
        /\ BlockEnds(AfterCrashState(issue.description)) # {} =>
               ret = Returned(TrimmedLines(AfterCrashState(issue.description),
                                  BlockLines(AfterCrashState(issue.description))))
        /\ ret.kind = "return" =>
               \A i \in 1..Len(ret.value) :
                   ret.value[i] # <<>> /\ Trimmed(ret.value[i]) = ret.value[i]
        /\ issue.description = crash_state_example =>
               ret = Returned(<<<<"t", "o", "p", " ", "f", "r", "a", "m", "e">>,
                                <<"m", "i", "d", "d", "l", "e">>,
                                <<"b", "o", "t", "t", "o", "m">>>>)

\* the Sanitizer line that comes right after "Crash State:" has been
\* returned as a line of the crash state
C8_Witness ==
    /\ pc = "_get_crash_state"
    /\ issue.description = <<"C", "r", "a", "s", "h", " ", "S", "t", "a", "t", "e", ":", "\n", "S", "a", "n", "i", "t", "i", "z", "e", "r", ":", " ", "x", "\n", "\n">>
    /\ ret = Returned(<<<<"S", "a", "n", "i", "t", "i", "z", "e", "r", ":", " ", "x">>>>)

\* when the line after "Crash State:" does not end the block, the result is
\* the block's lines
C8_HoldsOnStartedBlocks ==
    1 \notin BlockEnds(AfterCrashState(issue.description)) => C8_BlockLines

(***************************************************************************)
(* _get_sanitizer at the ids 383 and 384, on texts of at most MaxLines     *)
(* lines out of job types and a Sanitizer line.                            *)
(***************************************************************************)
mark_Sanitizer_line == <<"S", "a", "n", "i", "t", "i", "z", "e", "r", ":", " ">>

SanitizerLines ==
    {<<"J", "o", "b", " ", "T", "y", "p", "e", ":", " ", "l", "i", "b", "f", "u", "z", "z", "e", "r", "_", "a", "s", "a", "n", "_", "p", "\n">>,
     <<"J", "o", "b", " ", "T", "y", "p", "e", ":", " ", "a", "f", "l", "_", "m", "s", "a", "n", "_", "u", "b", "s", "a", "n", "\n">>,
     <<"J", "o", "b", " ", "T", "y", "p", "e", ":", " ", "x", "_", "T", "-", "S", "a", "n", "_", "l", "s", "a", "n", "\n">>,
     <<"J", "o", "b", " ", "T", "y", "p", "e", ":", " ", "h", "o", "n", "g", "g", "f", "u", "z", "z", "_", "p", "\n">>,
     <<"J", "o", "b", " ", "T", "y", "p", "e", ":", " ", "a", "_", "L", "S", "A", "N", "\n">>,
     <<"S", "a", "n", "i", "t", "i", "z", "e", "r", ":", " ", "s", "\n">>}

SanitizerIds == {383, 384}

InitSanitizer ==
    /\ issue \in {IssueOf(n, d, <<>>) :
                     n \in SanitizerIds, d \in Texts(SanitizerLines, MaxLines)}
    /\ str1 = None
    /\ str2 = None
    /\ pc = "start"
    /\ ret = NotCalled

CallGetSanitizer ==
    /\ pc = "start"
    /\ pc' = "_get_sanitizer"
    /\ ret' = _get_sanitizer(issue.description, issue.id)
    /\ UNCHANGED <<issue, str1, str2>>

NextSanitizer == CallGetSanitizer

SpecSanitizer == InitSanitizer /\ [][NextSanitizer]_vars

\* the positions of s at which a token between underscores starts
TokenStarts(s) == {1} \cup {k + 1 : k \in {j \in 1..Len(s) : s[j] = "_"}}

\* the token of s that starts at start
TokenAt(s, start) ==
    SubSeq(s, start,
           CHOOSE k \in (start - 1)..Len(s) :
               /\ k = Len(s) \/ s[k + 1] = "_"
               /\ \A j \in start..k : s[j] # "_")

\* the short names of the sanitizers and the names they map to
SanitizerNames ==
    {<<str_asan, str_address_ASAN>>, <<str_ubsan, str_undefined_UBSAN>>,
     <<str_msan, str_memory_MSAN>>, <<str_tsan, str_thread_TSAN>>,
     <<str_lsan, str_leak_LSAN>>}

\* the mapped name of the first token of jobtype that fuzzily equals a short
\* name, the empty string when no token does
SanitizerOfJobType(jobtype) ==
    LET named == {start \in TokenStarts(jobtype) :
                     \E sn \in SanitizerNames :
                         FuzzyEqual(TokenAt(jobtype, start), sn[1])}
        first == CHOOSE start \in named : \A other \in named : start <= other
    IN  IF named = {} THEN <<>>
        ELSE (CHOOSE sn \in SanitizerNames :
                  FuzzyEqual(TokenAt(jobtype, first), sn[1]))[2]

\* C11: _get_sanitizer up to the id 383 depends on the job type alone: the
\* mapped name of its first token between underscores that fuzzily equals
\* asan, ubsan, msan, tsan or lsan, the empty string when none does, whatever
\* "Sanitizer:" line there is; from 384 on it is the strict capture of
\* "Sanitizer: <value>", a hard failure when the line is missing.  Every id
\* is in exactly one of the two branches.
C11_SanitizerByIdEra ==
    pc = "_get_sanitizer" =>
        /\ ret = IF issue.id <= 383
                 THEN StrictThen(LineField(issue.description,
                                           {mark_Job_Type}, 1),
                                 SanitizerOfJobType)
                 ELSE Strict(LineField(issue.description,
                                       {mark_Sanitizer_line}, 1))
        /\ ret # Returned(None)

\* at the id 384 a description with a job type and then a Sanitizer line that
\* ends the text has made _get_sanitizer fail
C11_Witness ==
    /\ pc = "_get_sanitizer"
    /\ issue.id = 384
    /\ issue.description =
           <<"J", "o", "b", " ", "T", "y", "p", "e", ":", " ", "l", "i", "b", "f", "u", "z", "z", "e", "r", "_", "a", "s", "a", "n", "_", "p", "\n", "S", "a", "n", "i", "t", "i", "z", "e", "r", ":", " ", "s">>
    /\ ret = Raised("Warning")

\* on the texts that end with a line break the rule of the era gives the
\* result
C11_HoldsOnTerminatedLines ==
    EndsWithLineBreak(issue.description) => C11_SanitizerByIdEra

(***************************************************************************)
(* _get_regressed_commits_url on texts of at most MaxLines lines out of    *)
(* Regressed lines, Crash Revision lines and a line of neither.            *)
(***************************************************************************)
mark_Regressed == <<"R", "e", "g", "r", "e", "s", "s", "e", "d", ":", " ">>

mark_Crash_Revision == <<"C", "r", "a", "s", "h", " ", "R", "e", "v", "i", "s", "i", "o", "n", ":", " ">>

RegressedLines ==
    {<<"R", "e", "g", "r", "e", "s", "s", "e", "d", ":", " ", "r", "\n">>,
     <<"R", "e", "g", "r", "e", "s", "s", "e", "d", ":", " ", "u", "\n">>,
     <<"R", "e", "g", "r", "e", "s", "s", "e", "d", ":", " ", "\n">>,
     <<"C", "r", "a", "s", "h", " ", "R", "e", "v", "i", "s", "i", "o", "n", ":", " ", "c", "\n">>,
     <<"C", "r", "a", "s", "h", " ", "R", "e", "v", "i", "s", "i", "o", "n", ":", " ", "d", "\n">>,
     <<"o", "t", "h", "e", "r", "\n">>}

InitRegressed ==
    /\ issue \in {IssueOf(1, d, <<>>) : d \in Texts(RegressedLines, MaxLines)}
    /\ str1 = None
    /\ str2 = None
    /\ pc = "start"
    /\ ret = NotCalled

CallGetRegressedCommitsUrl ==
    /\ pc = "start"
    /\ pc' = "_get_regressed_commits_url"
    /\ ret' = _get_regressed_commits_url(issue.description)
    /\ UNCHANGED <<issue, str1, str2>>

NextRegressed == CallGetRegressedCommitsUrl

SpecRegressed == InitRegressed /\ [][NextRegressed]_vars

\* C12: _get_regressed_commits_url never raises.  It returns the value of
\* "Regressed: <value>" when that marker is present, a "Crash Revision:" line
\* earlier in the text or not; else the value of "Crash Revision: <value>";
\* and None, never the empty string, exactly when neither is present.  (A
\* marker is present where a value of at least one character follows it.)
C12_RegressedThenCrashRevision ==
    pc = "_get_regressed_commits_url" =>
        /\ ret.kind = "return"
        /\ ret.value # <<>>
        /\ ret.value =
               FirstPresent(<<LineField(issue.description,
                                        {mark_Regressed}, 1),
                              LineField(issue.description,
                                        {mark_Crash_Revision}, 1)>>)

\* a Regressed line that ends the text, after a Crash Revision line, has been
\* passed over
C12_Witness ==
    /\ pc = "_get_regressed_commits_url"
    /\ issue.description = <<"C", "r", "a", "s", "h", " ", "R", "e", "v", "i", "s", "i", "o", "n", ":", " ", "c", "\n", "R", "e", "g", "r", "e", "s", "s", "e", "d", ":", " ", "r">>
    /\ ret = Returned(<<"c">>)

\* on the texts that end with a line break the Regressed value comes first,
\* then the Crash Revision value, then None
C12_HoldsOnTerminatedLines ==
    EndsWithLineBreak(issue.description) => C12_RegressedThenCrashRevision

\* no call raises, and none returns the empty string
C12_NeverRaises ==
    pc = "_get_regressed_commits_url" =>
        ret.kind = "return" /\ ret.value # <<>>

====
